---------------------------- MODULE Spec2Model ----------------------------
(***************************************************************************)
(* Terrain generation, chunk streaming and player physics of the voxel     *)
(* world: Noise.ts (coordinate-seeded value noise), Chunk.ts (height map   *)
(* and cube buffer of one chunk) and App.ts (MinecraftAnimation: loaded    *)
(* chunk map, aggregate buffer, axis-separated collision, jump, reset).    *)
(*                                                                         *)
(* Numbers.  The program computes in IEEE doubles.  The model computes in  *)
(* fixed point: a length, a time or a noise value v is the integer         *)
(* v * Unit (Unit = 1000: millimetres of a block, milliseconds,            *)
(* thousandths).  With the frame times of DeltaTimes every product the     *)
(* physics forms is an exact multiple of 1/Unit, so Floor below is         *)
(* Math.floor of the value the program holds.  The noise polynomial is     *)
(* rounded down to 1/Unit after each product.                              *)
(***************************************************************************)
EXTENDS Integers, Sequences, FiniteSets, TLC

VARIABLES
    loadedChunks,        \* Map<string, Chunk>, App.ts:24
    currentChunkX,       \* App.ts:25
    currentChunkZ,       \* App.ts:26
    combinedCubeOffsets, \* Float32Array, App.ts:33
    totalCubesToDraw,    \* App.ts:34
    playerPosition,      \* Vec3, App.ts:43
    playerVelocity,      \* Vec3, App.ts:44
    isJumping,           \* App.ts:45
    pc,                  \* position inside draw(): "idle" between frames, "check" between
                         \* updatePlayer and checkAndUpdateChunks; "updated" after a direct
                         \* call of updateChunks
    console,             \* the messages the last handler wrote with console.log/warn/error
    terrain,             \* [baseHeight, terrainAmplitude] of generateCubes, fixed for a run
    startY,              \* where a test fixture placed the reference point (spawnY in the program)
    gen                  \* a Chunk under construction, stepped through generateCubes

vars == <<loadedChunks, currentChunkX, currentChunkZ, combinedCubeOffsets,
          totalCubesToDraw, playerPosition, playerVelocity, isJumping, pc,
          console, terrain, startY, gen>>

-----------------------------------------------------------------------------
(* Fixed point *)

Unit == 10 * 10 * 10

\* Math.floor of a fixed-point value, as a fixed-point value
Floor(v) == (v \div Unit) * Unit

\* Math.floor of a fixed-point value, as an integer
FloorInt(v) == v \div Unit

\* the product of two fixed-point values
Mul(a, b) == (a * b) \div Unit

Max(a, b) == IF a >= b THEN a ELSE b

Min(a, b) == IF a <= b THEN a ELSE b

\* statement order: "value" is computed first, once, and Rest continues with the
\* result, as in  const v = value; ...Rest(v)...
Then(value, Rest(_)) == CHOOSE result \in {Rest(v) : v \in {value}} : TRUE

-----------------------------------------------------------------------------
(* Bounds of the model *)

\* MinecraftAnimation.chunkSize is 64; the model runs the same code on smaller chunks
chunkSize == 2

\* the player walks at most MaxWalk frames' distance up and MaxWalk + 1 frames'
\* distance down from the spawn point on each axis: with the chunk sizes of the
\* model that reaches the chunks on both sides
MaxWalk == 2

-----------------------------------------------------------------------------
(* Program constants *)

renderDistance == 1

gravity == -25

jumpSpeed == 10

playerHeight == 2

\* 0.4
playerRadius == 400

terminalVelocity == -50

\* Math.min(deltaTime, 0.1)
maxStep == 100

\* walkDir.scale(5.0)
walkSpeed == 5

\* the y of the spawn point
spawnY == 105

\* "+ 0.001" and "- 0.001" of the Y snap
landOffset == 1

\* "this.playerPosition.y < -50"
fallLimit == -50

baseHeight == 10

terrainAmplitude == 80

\* 0.02
noiseScale == 20

octaves == 4

\* 0.5
persistence == 500

\* Math.min(100, height)
maxHeight == 100

WORLD_SEED == "my_minecraft_world_42"

-----------------------------------------------------------------------------
(* lib/rand-seed/Rand.js: a seeded generator.  Its source is not part of    *)
(* the repository's files; Noise.ts uses only "new Rand(seed).next()", the  *)
(* first output of a generator seeded by a string, a value in [0, 1).       *)

StringCode(s) == IF s = WORLD_SEED THEN 42 ELSE 7

RECURSIVE RandMix(_, _)
RandMix(h, fields) ==
    IF fields = <<>> THEN h
    ELSE RandMix(((h + Head(fields) + 1000) * 7919) % 65521, Tail(fields))

\* new Rand(seed): the generator's state.  A seed string is modelled by its
\* fields: <<prefix string, integer, integer, ...>>
Rand(seed) == RandMix(StringCode(Head(seed)), Tail(seed))

\* rand.next() of a fresh generator, in [0, Unit)
RandNext(state) == state % Unit

-----------------------------------------------------------------------------
(* Noise.ts *)

\* `${WORLD_SEED}|${ix}|${iz}`: the separators keep the three fields apart
getCoordinateSeed(ix, iz) == <<WORLD_SEED, ix, iz>>

getConstantRandomValue(ix, iz) == RandNext(Rand(getCoordinateSeed(ix, iz)))

\* t * t * t * (t * (t * 6 - 15) + 10)
fade(t) == Mul(Mul(Mul(t, t), t), Mul(t, 6 * t - 15 * Unit) + 10 * Unit)

lerp(a, b, t) == a + Mul(t, b - a)

valueNoise(x, z) ==
    LET gx0 == FloorInt(x)
        gz0 == FloorInt(z)
        gx1 == gx0 + 1
        gz1 == gz0 + 1
        tx  == x - gx0 * Unit
        tz  == z - gz0 * Unit
        u   == fade(tx)
        v   == fade(tz)
        v00 == getConstantRandomValue(gx0, gz0)
        v10 == getConstantRandomValue(gx1, gz0)
        v01 == getConstantRandomValue(gx0, gz1)
        v11 == getConstantRandomValue(gx1, gz1)
        nx0 == lerp(v00, v10, u)
        nx1 == lerp(v01, v11, u)
    IN  lerp(nx0, nx1, v)

\* the loop of octaveNoise from octave i on
RECURSIVE octaveLoop(_, _, _, _, _, _, _, _)
octaveLoop(x, z, i, n, pers, total, amplitude, currentFrequency) ==
    IF i >= n THEN total
    ELSE octaveLoop(x, z, i + 1, n, pers,
                    total + Mul(valueNoise(Mul(x, currentFrequency), Mul(z, currentFrequency)),
                                amplitude),
                    Mul(amplitude, pers), currentFrequency * 2)

\* maxValue: the sum of the amplitudes
RECURSIVE octaveMax(_, _, _, _)
octaveMax(i, n, pers, amplitude) ==
    IF i >= n THEN 0 ELSE amplitude + octaveMax(i + 1, n, pers, Mul(amplitude, pers))

octaveNoise(x, z, n, pers, frequency) ==
    LET total    == octaveLoop(x, z, 0, n, pers, 0, Unit, frequency)
        maxValue == octaveMax(0, n, pers, Unit)
    IN  IF maxValue = 0 THEN 0 ELSE (total * Unit) \div maxValue

-----------------------------------------------------------------------------
(* Chunk.ts *)

\* new Float32Array(n): n zeros.  Index k of the array is element k + 1 here.
Float32Array(n) == [k \in 1..n |-> 0]

\* a[idx] = val: a typed array drops a write outside 0 .. length-1
WriteF32(a, idx, val) ==
    IF idx >= 0 /\ idx < Len(a) THEN [a EXCEPT ![idx + 1] = val] ELSE a

\* new Noise(seed): Noise declares neither a constructor nor a field, so the
\* seed is dropped.  Chunk calls octaveNoise through this object; the only
\* octaveNoise is the class's static method, which the model calls.
Noise(seed) == [class |-> "Noise"]

\* lines 24-40: the fields before generateCubes runs
ChunkFields(chunkX, chunkZ, size) ==
    [chunkX    |-> chunkX,
     chunkZ    |-> chunkZ,
     size      |-> size,
     minWorldX |-> chunkX * size,
     minWorldZ |-> chunkZ * size,
     maxWorldX |-> chunkX * size + size,
     maxWorldZ |-> chunkZ * size + size,
     seed      |-> <<"", chunkX, chunkZ>>,
     noise     |-> Noise(<<"", chunkX, chunkZ>>),
     heightMap |-> [i \in 0..(size - 1) |-> [j \in 0..(size - 1) |-> 0]],
     cubes     |-> 0,
     cubePositionsF32 |-> Float32Array(0)]

\* the world columns the chunks of the model cover, on each axis
WorldColumns ==
    LET extent == (MaxWalk + renderDistance + 2) * (chunkSize + 2)
    IN  (-extent)..extent

\* octaveNoise(worldX * noiseScale, worldZ * noiseScale, octaves, persistence,
\* frequency) of lines 62-68, tabulated over the world columns
terrainNoise ==
    [worldX \in WorldColumns |-> [worldZ \in WorldColumns |->
        octaveNoise(worldX * noiseScale, worldZ * noiseScale, octaves, persistence, Unit)]]

\* columnNoise of a noise field seeded per chunk: each chunk samples its own
\* region of the field, a lattice cell per chunk coordinate away
columnNoise_ChunkSeeded(c, i, j) ==
    octaveNoise((c.minWorldX + j) * noiseScale + c.chunkX * Unit,
                (c.minWorldZ + i) * noiseScale + c.chunkZ * Unit,
                octaves, persistence, Unit)

\* lines 58-68: the noise value of local column (i = local z, j = local x)
columnNoise(c, i, j) == terrainNoise[c.minWorldX + j][c.minWorldZ + i]

\* lines 71-74: Math.floor(baseHeight + noiseVal * terrainAmplitude), clamped
columnHeight(c, i, j) ==
    LET height == FloorInt(terrain.baseHeight * Unit
                           + columnNoise(c, i, j) * terrain.terrainAmplitude)
    IN  Max(0, Min(maxHeight, height))

\* Pass1Column counting height cubes for a column instead of height + 1
Pass1Column_HeightCubes(c, totalCubes, i, j) ==
    LET clampedHeight == columnHeight(c, i, j)
    IN  [chunk      |-> [c EXCEPT !.heightMap[i][j] = clampedHeight],
         totalCubes |-> totalCubes + clampedHeight]

\* lines 58-78, one column of pass 1: heightMap[i][j] and totalCubes
Pass1Column(c, totalCubes, i, j) ==
    LET clampedHeight == columnHeight(c, i, j)
    IN  [chunk      |-> [c EXCEPT !.heightMap[i][j] = clampedHeight],
         totalCubes |-> totalCubes + (clampedHeight + 1)]

\* pass 1 from column k = i * size + j on
RECURSIVE Pass1From(_, _, _)
Pass1From(c, totalCubes, k) ==
    IF k >= c.size * c.size THEN [chunk |-> c, totalCubes |-> totalCubes]
    ELSE LET r == Pass1Column(c, totalCubes, k \div c.size, k % c.size)
         IN  Pass1From(r.chunk, r.totalCubes, k + 1)

\* lines 84-85
Allocate(c, totalCubes) ==
    [c EXCEPT !.cubes = totalCubes, !.cubePositionsF32 = Float32Array(4 * totalCubes)]

\* lines 96-99: the four writes of one cube, bufferIndex++ after each
WriteCube(c, bufferIndex, i, j, y) ==
    LET worldX == c.minWorldX + j
        worldZ == c.minWorldZ + i
        b0 == WriteF32(c.cubePositionsF32, bufferIndex, worldX)
        b1 == WriteF32(b0, bufferIndex + 1, y)
        b2 == WriteF32(b1, bufferIndex + 2, worldZ)
        b3 == WriteF32(b2, bufferIndex + 3, 0)
    IN  [chunk       |-> [c EXCEPT !.cubePositionsF32 = b3],
         bufferIndex |-> bufferIndex + 4]

\* lines 95-100: the cubes y = 0 .. height of column (i, j), WriteCube for each y
\* in turn: cube y lands at bufferIndex + 4 * y, writes past the end dropped
WriteColumn(c, bufferIndex, i, j) ==
    LET height == c.heightMap[i][j]
        worldX == c.minWorldX + j
        worldZ == c.minWorldZ + i
        cubes  == [k \in 1..(4 * (height + 1)) |->
                      CASE (k - 1) % 4 = 0 -> worldX
                        [] (k - 1) % 4 = 1 -> (k - 1) \div 4
                        [] (k - 1) % 4 = 2 -> worldZ
                        [] OTHER -> 0]
        length == Len(c.cubePositionsF32)
        first  == Min(bufferIndex, length)
        last   == Min(bufferIndex + 4 * (height + 1), length)
    IN  [chunk |->
            [c EXCEPT !.cubePositionsF32 =
                SubSeq(@, 1, first) \o SubSeq(cubes, 1, last - first)
                    \o SubSeq(@, last + 1, length)],
         bufferIndex |-> bufferIndex + 4 * (height + 1)]

\* pass 2 from column k = i * size + j on
RECURSIVE Pass2From(_, _, _)
Pass2From(c, bufferIndex, k) ==
    IF k >= c.size * c.size THEN [chunk |-> c, bufferIndex |-> bufferIndex]
    ELSE LET r == WriteColumn(c, bufferIndex, k \div c.size, k % c.size)
         IN  Pass2From(r.chunk, r.bufferIndex, k + 1)

generateCubes(c) ==
    Then(Pass1From(c, 0, 0), LAMBDA p1 :
        Pass2From(Allocate(p1.chunk, p1.totalCubes), 0, 0).chunk)

\* new Chunk(chunkX, chunkZ, size)
Chunk(chunkX, chunkZ, size) == generateCubes(ChunkFields(chunkX, chunkZ, size))

\* hasBlock with the top cube of a column left out
hasBlock_BelowHeight(c, worldX, worldY, worldZ) ==
    IF worldX < c.minWorldX \/ worldX >= c.maxWorldX
       \/ worldZ < c.minWorldZ \/ worldZ >= c.maxWorldZ
    THEN FALSE
    ELSE worldY >= 0 /\ worldY < c.heightMap[worldZ - c.minWorldZ][worldX - c.minWorldX]

hasBlock(c, worldX, worldY, worldZ) ==
    IF worldX < c.minWorldX \/ worldX >= c.maxWorldX
       \/ worldZ < c.minWorldZ \/ worldZ >= c.maxWorldZ
    THEN FALSE
    ELSE LET localX == worldX - c.minWorldX
             localZ == worldZ - c.minWorldZ
         IN  IF localX < 0 \/ localX >= c.size \/ localZ < 0 \/ localZ >= c.size
             THEN FALSE
             ELSE LET terrainHeight == c.heightMap[localZ][localX]
                  IN  worldY >= 0 /\ worldY <= terrainHeight

cubePositions(c) == c.cubePositionsF32

numCubes(c) == c.cubes

-----------------------------------------------------------------------------
(* Map<string, Chunk>.  The key `${x},${z}` of two integers is modelled by  *)
(* the pair <<x, z>>, the map by the function from its keys to its values. *)
(* A Map iterates in insertion order; the model iterates in key order.     *)
(* The order decides only where a chunk's cubes lie in combinedCubeOffsets.*)

ChunkKey(x, z) == <<x, z>>

EmptyMap == [key \in {} |-> 0]

MapHas(m, key) == key \in DOMAIN m

MapGet(m, key) == m[key]

MapDelete(m, key) == [k \in (DOMAIN m) \ {key} |-> m[k]]

MapSet(m, key, value) == [k \in (DOMAIN m) \cup {key} |-> IF k = key THEN value ELSE m[k]]

MapSize(m) == Cardinality(DOMAIN m)

\* the key set of a map
KeySet(m) == DOMAIN m

KeyBefore(k1, k2) == k1[1] < k2[1] \/ (k1[1] = k2[1] /\ k1[2] <= k2[2])

RECURSIVE KeysInOrder(_)
KeysInOrder(keys) ==
    IF keys = {} THEN <<>>
    ELSE LET first == CHOOSE k \in keys : \A other \in keys : KeyBefore(k, other)
         IN  <<first>> \o KeysInOrder(keys \ {first})

\* Array.from(map.keys())
MapKeys(m) == KeysInOrder(DOMAIN m)

\* map.values()
MapValues(m) == LET keys == MapKeys(m) IN [n \in 1..Len(keys) |-> m[keys[n]]]

-----------------------------------------------------------------------------
(* App.ts: MinecraftAnimation.  An operation maps the object's fields (a    *)
(* record "a" with the fields of This) to the fields after it.              *)

This ==
    [loadedChunks        |-> loadedChunks,
     currentChunkX       |-> currentChunkX,
     currentChunkZ       |-> currentChunkZ,
     combinedCubeOffsets |-> combinedCubeOffsets,
     totalCubesToDraw    |-> totalCubesToDraw,
     playerPosition      |-> playerPosition,
     playerVelocity      |-> playerVelocity,
     isJumping           |-> isJumping,
     console             |-> {}]

Vec3(x, y, z) == [x |-> x, y |-> y, z |-> z]

\* new Vec3([chunkSize * 0.5, 105, chunkSize * 0.5])
SpawnPoint == Vec3((chunkSize * Unit) \div 2, spawnY * Unit, (chunkSize * Unit) \div 2)

Log(a, msg) == [a EXCEPT !.console = @ \cup {msg}]

getPlayerChunkX(a) == a.playerPosition.x \div (chunkSize * Unit)

getPlayerChunkZ(a) == a.playerPosition.z \div (chunkSize * Unit)

\* integer division that truncates toward zero
Trunc(n, d) == IF n >= 0 THEN n \div d ELSE -((-n) \div d)

\* isBlockAt finding the chunk coordinate by a division that truncates toward zero
isBlockAt_Truncates(a, worldX, worldY, worldZ) ==
    LET ix == FloorInt(worldX)
        iy == FloorInt(worldY)
        iz == FloorInt(worldZ)
    IN  IF iy < 0 THEN FALSE
        ELSE LET key == ChunkKey(Trunc(ix, chunkSize), Trunc(iz, chunkSize))
             IN  IF MapHas(a.loadedChunks, key)
                 THEN hasBlock(MapGet(a.loadedChunks, key), ix, iy, iz)
                 ELSE FALSE

isBlockAt(a, worldX, worldY, worldZ) ==
    LET ix == FloorInt(worldX)
        iy == FloorInt(worldY)
        iz == FloorInt(worldZ)
    IN  IF iy < 0 THEN FALSE
        ELSE LET chunkX == ix \div chunkSize
                 chunkZ == iz \div chunkSize
                 key    == ChunkKey(chunkX, chunkZ)
             IN  IF ~MapHas(a.loadedChunks, key) THEN FALSE
                 ELSE hasBlock(MapGet(a.loadedChunks, key), ix, iy, iz)

\* TypedArray.set(source, offset)
SetF32(target, source, offset) ==
    SubSeq(target, 1, offset) \o source
        \o SubSeq(target, offset + Len(source) + 1, Len(target))

\* lines 365-368: the sum of numCubes() over the values from entry n on
RECURSIVE SumCubes(_, _)
SumCubes(values, n) ==
    IF n > Len(values) THEN 0 ELSE numCubes(values[n]) + SumCubes(values, n + 1)

\* lines 377-384: the fill loop from entry n on
RECURSIVE FillCombined(_, _, _, _)
FillCombined(values, n, buffer, bufferOffset) ==
    IF n > Len(values) THEN [buffer |-> buffer, bufferOffset |-> bufferOffset]
    ELSE LET chunkOffsets == cubePositions(values[n])
         IN  IF Len(chunkOffsets) > 0
             THEN FillCombined(values, n + 1, SetF32(buffer, chunkOffsets, bufferOffset),
                               bufferOffset + Len(chunkOffsets))
             ELSE FillCombined(values, n + 1, buffer, bufferOffset)

aggregateChunkData(a) ==
    LET values == MapValues(a.loadedChunks)
        total  == SumCubes(values, 1)
        filled == FillCombined(values, 1, Float32Array(total * 4), 0)
        a1     == Log([a EXCEPT !.totalCubesToDraw = total,
                                !.combinedCubeOffsets = filled.buffer],
                      "Aggregating data")
    IN  IF filled.bufferOffset # Len(filled.buffer)
        THEN Log(a1, "Buffer offset mismatch after aggregation")
        ELSE a1

\* lines 323-333: the offsets (dx, dz) in loop order
Offsets ==
    [n \in 1..((2 * renderDistance + 1) * (2 * renderDistance + 1)) |->
        [dx |-> ((n - 1) \div (2 * renderDistance + 1)) - renderDistance,
         dz |-> ((n - 1) % (2 * renderDistance + 1)) - renderDistance]]

requiredChunks(centerX, centerZ) ==
    {ChunkKey(centerX + Offsets[n].dx, centerZ + Offsets[n].dz) : n \in 1..Len(Offsets)}

\* chunksToLoad listing every required chunk, loaded already or not
chunksToLoad_All(a, centerX, centerZ) ==
    [n \in 1..Len(Offsets) |-> [x |-> centerX + Offsets[n].dx, z |-> centerZ + Offsets[n].dz]]

chunksToLoad(a, centerX, centerZ) ==
    SelectSeq([n \in 1..Len(Offsets) |->
                  [x |-> centerX + Offsets[n].dx, z |-> centerZ + Offsets[n].dz]],
              LAMBDA pos : ~MapHas(a.loadedChunks, ChunkKey(pos.x, pos.z)))

\* UnloadFrom that unloads nothing
UnloadFrom_None(a, currentKeys, n, required) == a

\* lines 336-343
RECURSIVE UnloadFrom(_, _, _, _)
UnloadFrom(a, currentKeys, n, required) ==
    IF n > Len(currentKeys) THEN a
    ELSE IF currentKeys[n] \notin required
         THEN UnloadFrom(Log([a EXCEPT !.loadedChunks = MapDelete(@, currentKeys[n])],
                             "Unloading chunk"),
                         currentKeys, n + 1, required)
         ELSE UnloadFrom(a, currentKeys, n + 1, required)

\* lines 347-354
RECURSIVE LoadFrom(_, _, _)
LoadFrom(a, toLoad, n) ==
    IF n > Len(toLoad) THEN a
    ELSE LET pos      == toLoad[n]
             newChunk == Chunk(pos.x, pos.z, chunkSize)
         IN  LoadFrom(Log([a EXCEPT !.loadedChunks = MapSet(@, ChunkKey(pos.x, pos.z), newChunk)],
                          "Loading chunk"),
                      toLoad, n + 1)

\* updateChunks aggregating only when the number of loaded chunks changed
updateChunks_CountOnly(a, centerX, centerZ) ==
    LET required    == requiredChunks(centerX, centerZ)
        toLoad      == chunksToLoad(a, centerX, centerZ)
        currentKeys == MapKeys(a.loadedChunks)
        a1          == UnloadFrom(a, currentKeys, 1, required)
    IN  Then(LoadFrom(a1, toLoad, 1), LAMBDA a2 :
            IF Len(currentKeys) # MapSize(a2.loadedChunks)
            THEN aggregateChunkData(a2)
            ELSE a2)

updateChunks(a, centerX, centerZ) ==
    LET required        == requiredChunks(centerX, centerZ)
        toLoad          == chunksToLoad(a, centerX, centerZ)
        currentKeys     == MapKeys(a.loadedChunks)
        a1              == UnloadFrom(a, currentKeys, 1, required)
        newChunksLoaded == Len(toLoad) > 0
    IN  Then(LoadFrom(a1, toLoad, 1), LAMBDA a2 :
            IF newChunksLoaded \/ Len(currentKeys) # MapSize(a2.loadedChunks)
            THEN aggregateChunkData(a2)
            ELSE a2)

\* checkAndUpdateChunks comparing the x coordinate only
checkAndUpdateChunks_XOnly(a) ==
    LET newChunkX == getPlayerChunkX(a)
        newChunkZ == getPlayerChunkZ(a)
    IN  IF newChunkX # a.currentChunkX
        THEN updateChunks(Log([a EXCEPT !.currentChunkX = newChunkX,
                                        !.currentChunkZ = newChunkZ],
                              "Crossed chunk boundary"),
                          newChunkX, newChunkZ)
        ELSE a

checkAndUpdateChunks(a) ==
    LET newChunkX == getPlayerChunkX(a)
        newChunkZ == getPlayerChunkZ(a)
    IN  IF newChunkX # a.currentChunkX \/ newChunkZ # a.currentChunkZ
        THEN updateChunks(Log([a EXCEPT !.currentChunkX = newChunkX,
                                        !.currentChunkZ = newChunkZ],
                              "Crossed chunk boundary"),
                          newChunkX, newChunkZ)
        ELSE a

reset(a) ==
    LET a1 == [a EXCEPT !.playerPosition = SpawnPoint,
                        !.playerVelocity = Vec3(0, 0, 0),
                        !.isJumping = FALSE]
        a2 == [a1 EXCEPT !.loadedChunks = EmptyMap]
        a3 == [a2 EXCEPT !.currentChunkX = getPlayerChunkX(a2),
                         !.currentChunkZ = getPlayerChunkZ(a2)]
    IN  updateChunks(a3, a3.currentChunkX, a3.currentChunkZ)

-----------------------------------------------------------------------------
(* Physics *)

\* lines 283-293: dy = 0, playerHeight/2, playerHeight; dx, dz = -playerRadius, +playerRadius
CollisionSamples(checkPos) ==
    {Vec3(checkPos.x + dx, checkPos.y - dy, checkPos.z + dz) :
        dx \in {-playerRadius, playerRadius},
        dy \in {0, (playerHeight * Unit) \div 2, playerHeight * Unit},
        dz \in {-playerRadius, playerRadius}}

checkCollision(a, checkPos) ==
    \/ \E p \in CollisionSamples(checkPos) : isBlockAt(a, p.x, p.y, p.z)
    \/ isBlockAt(a, checkPos.x, checkPos.y - playerHeight * Unit, checkPos.z)

\* ResolveY landing the reference point, not the feet, on the block level
ResolveY_LandsAtFeet(a, m) ==
    IF m.y = 0 THEN a
    ELSE LET checkPosY == [a.playerPosition EXCEPT !.y = @ + m.y]
         IN  IF checkCollision(a, checkPosY)
             THEN IF m.y < 0
                  THEN [a EXCEPT !.playerPosition.y =
                                     Floor(a.playerPosition.y - playerHeight * Unit) + landOffset,
                                 !.isJumping = FALSE,
                                 !.playerVelocity.y = 0]
                  ELSE [a EXCEPT !.playerPosition.y = Floor(checkPosY.y) - landOffset,
                                 !.playerVelocity.y = 0]
             ELSE [a EXCEPT !.playerPosition.y = @ + m.y]

\* lines 225-241: the Y axis.  m is potentialMove.
ResolveY(a, m) ==
    IF m.y = 0 THEN a
    ELSE LET checkPosY == [a.playerPosition EXCEPT !.y = @ + m.y]
         IN  IF checkCollision(a, checkPosY)
             THEN IF m.y < 0
                  THEN [a EXCEPT !.playerPosition.y =
                                     Floor(a.playerPosition.y - playerHeight * Unit)
                                     + playerHeight * Unit + landOffset,
                                 !.isJumping = FALSE,
                                 !.playerVelocity.y = 0]
                  ELSE [a EXCEPT !.playerPosition.y = Floor(checkPosY.y) - landOffset,
                                 !.playerVelocity.y = 0]
             ELSE [a EXCEPT !.playerPosition.y = @ + m.y]

\* ResolveX committing the displacement without the collision test
ResolveX_Untested(a, m) ==
    IF m.x = 0 THEN a
    ELSE [a EXCEPT !.playerPosition.x = @ + m.x]

\* lines 244-253
ResolveX(a, m) ==
    IF m.x = 0 THEN a
    ELSE LET checkPosX == [a.playerPosition EXCEPT !.x = @ + m.x]
         IN  IF checkCollision(a, checkPosX)
             THEN [a EXCEPT !.playerVelocity.x = 0]
             ELSE [a EXCEPT !.playerPosition.x = @ + m.x]

\* lines 256-265
ResolveZ(a, m) ==
    IF m.z = 0 THEN a
    ELSE LET checkPosZ == [a.playerPosition EXCEPT !.z = @ + m.z]
         IN  IF checkCollision(a, checkPosZ)
             THEN [a EXCEPT !.playerVelocity.z = 0]
             ELSE [a EXCEPT !.playerPosition.z = @ + m.z]

\* ClampedDt without the clamp: the frame time as it comes
ClampedDt_Unclamped(deltaTime) == deltaTime

\* line 197: dt = Math.min(deltaTime, 0.1), in milliseconds
ClampedDt(deltaTime) == Min(deltaTime, maxStep)

\* lines 200-202: gravity, then the clamp at the terminal velocity
ApplyGravity(a, dt) ==
    [a EXCEPT !.playerVelocity.y = Max(@ + gravity * dt, terminalVelocity * Unit)]

\* lines 205-215: potentialMove = (walk velocity, playerVelocity.y) scaled by dt
PotentialMove(a, dt, walkDir) ==
    LET currentVelocity == Vec3(walkDir.x * walkSpeed, a.playerVelocity.y,
                                walkDir.z * walkSpeed)
    IN  Vec3(Mul(currentVelocity.x, dt), Mul(currentVelocity.y, dt),
             Mul(currentVelocity.z, dt))

\* MovePlayer resolving the X axis before the Y axis
MovePlayer_XBeforeY(a, deltaTime, walkDir) ==
    LET dt == ClampedDt(deltaTime)
        a1 == ApplyGravity(a, dt)
        potentialMove == PotentialMove(a1, dt, walkDir)
    IN  Then(ResolveX(a1, potentialMove), LAMBDA aX :
        Then(ResolveY(aX, potentialMove), LAMBDA aY :
             ResolveZ(aY, potentialMove)))

\* lines 197-265: the step before the fell-out-of-world test.  deltaTime is in
\* milliseconds; walkDir is gui.walkDir(), a horizontal unit vector or zero.
MovePlayer(a, deltaTime, walkDir) ==
    LET dt == ClampedDt(deltaTime)
        a1 == ApplyGravity(a, dt)
        potentialMove == PotentialMove(a1, dt, walkDir)
    IN  Then(ResolveY(a1, potentialMove), LAMBDA aY :
        Then(ResolveX(aY, potentialMove), LAMBDA aX :
             ResolveZ(aX, potentialMove)))

\* FellOut taking the limit itself for a fall out of the world
FellOut_AtLimit(a) == a.playerPosition.y <= fallLimit * Unit

\* lines 268-273: does the resolved position call for the reset
FellOut(a) == a.playerPosition.y < fallLimit * Unit

\* updatePlayer streaming the chunks around the position it moved to
updatePlayer_Streams(a, deltaTime, walkDir) ==
    Then(MovePlayer(a, deltaTime, walkDir), LAMBDA moved :
        IF FellOut(moved)
        THEN reset(Log(moved, "Player fell out of world, resetting."))
        ELSE updateChunks(moved, getPlayerChunkX(moved), getPlayerChunkZ(moved)))

updatePlayer(a, deltaTime, walkDir) ==
    Then(MovePlayer(a, deltaTime, walkDir), LAMBDA moved :
        IF FellOut(moved)
        THEN reset(Log(moved, "Player fell out of world, resetting."))
        ELSE moved)

\* lines 457-465: dx, dz = -playerRadius, 0, +playerRadius at block level groundY
onGround(a) ==
    LET groundY == FloorInt(a.playerPosition.y - playerHeight * Unit - 10)
    IN  \E dx \in {-playerRadius, 0, playerRadius} :
        \E dz \in {-playerRadius, 0, playerRadius} :
            isBlockAt(a, a.playerPosition.x + dx, groundY * Unit, a.playerPosition.z + dz)

\* jump without the ground test
jump_NoGroundTest(a) ==
    IF a.playerVelocity.y <= 100
    THEN [a EXCEPT !.playerVelocity.y = jumpSpeed * Unit, !.isJumping = TRUE]
    ELSE a

jump(a) ==
    IF onGround(a) /\ a.playerVelocity.y <= 100
    THEN [a EXCEPT !.playerVelocity.y = jumpSpeed * Unit, !.isJumping = TRUE]
    ELSE a

-----------------------------------------------------------------------------
(* The program as a state machine *)

\* deltaTime of a frame, in milliseconds: a frame on time and a late one
DeltaTimes == {100, 250}

\* gui.walkDir(): no key, or one of the four directions
WalkDirs == {[x |-> 0, z |-> 0], [x |-> Unit, z |-> 0], [x |-> -Unit, z |-> 0],
             [x |-> 0, z |-> Unit], [x |-> 0, z |-> -Unit]}

\* the walk stays inside the part of the world the model covers
InWorld(a, deltaTime, walkDir) ==
    LET dt    == Min(deltaTime, maxStep)
        x     == a.playerPosition.x + Mul(walkDir.x * walkSpeed, dt)
        z     == a.playerPosition.z + Mul(walkDir.z * walkSpeed, dt)
        reach == MaxWalk * walkSpeed * maxStep
        step  == walkSpeed * maxStep
    IN  /\ x - SpawnPoint.x \in (-reach - step)..reach
        /\ z - SpawnPoint.z \in (-reach - step)..reach

\* the fields of "a" become the next state
Becomes(a) ==
    /\ playerPosition' = a.playerPosition
    /\ playerVelocity' = a.playerVelocity
    /\ isJumping' = a.isJumping
    /\ currentChunkX' = a.currentChunkX
    /\ currentChunkZ' = a.currentChunkZ
    /\ totalCubesToDraw' = a.totalCubesToDraw
    /\ console' = a.console
    /\ loadedChunks' = a.loadedChunks
    /\ combinedCubeOffsets' = a.combinedCubeOffsets

\* the fields of "a" are the state
Holds(a) ==
    /\ loadedChunks = a.loadedChunks
    /\ currentChunkX = a.currentChunkX
    /\ currentChunkZ = a.currentChunkZ
    /\ combinedCubeOffsets = a.combinedCubeOffsets
    /\ totalCubesToDraw = a.totalCubesToDraw
    /\ playerPosition = a.playerPosition
    /\ playerVelocity = a.playerVelocity
    /\ isJumping = a.isJumping
    /\ console = a.console

\* lines 24-48 and 62-67: the fields before the constructor's first updateChunks,
\* the reference point at height y
Fields(y) ==
    [loadedChunks        |-> EmptyMap,
     currentChunkX       |-> 0,
     currentChunkZ       |-> 0,
     combinedCubeOffsets |-> Float32Array(0),
     totalCubesToDraw    |-> 0,
     playerPosition      |-> [SpawnPoint EXCEPT !.y = y],
     playerVelocity      |-> Vec3(0, 0, 0),
     isJumping           |-> FALSE,
     console             |-> {}]

\* lines 69-74: the object the constructor builds
Constructed(y) ==
    LET a0 == Fields(y)
        a1 == [a0 EXCEPT !.currentChunkX = getPlayerChunkX(a0),
                         !.currentChunkZ = getPlayerChunkZ(a0)]
    IN  updateChunks(a1, a1.currentChunkX, a1.currentChunkZ)

GenIdle == [pc |-> "none"]

Init ==
    /\ terrain = [baseHeight |-> baseHeight, terrainAmplitude |-> terrainAmplitude]
    /\ startY = spawnY * Unit
    /\ gen = GenIdle
    /\ pc = "idle"
    /\ \E a \in {Constructed(spawnY * Unit)} : Holds(a)

\* draw(), first half: updatePlayer(deltaTime)
UpdatePlayer(deltaTime, walkDir) ==
    /\ pc = "idle"
    /\ InWorld(This, deltaTime, walkDir)
    /\ \E a \in {updatePlayer(This, deltaTime, walkDir)} : Becomes(a)
    /\ pc' = "check"
    /\ UNCHANGED <<terrain, startY, gen>>

\* draw(), second half: checkAndUpdateChunks()
CheckAndUpdateChunks ==
    /\ pc = "check"
    /\ \E a \in {checkAndUpdateChunks(This)} : Becomes(a)
    /\ pc' = "idle"
    /\ UNCHANGED <<terrain, startY, gen>>

\* a jump request of the GUI, between frames
Jump ==
    /\ pc = "idle"
    /\ \E a \in {jump(This)} : Becomes(a)
    /\ UNCHANGED <<pc, terrain, startY, gen>>

\* reset() called by the GUI, between frames
Reset ==
    /\ pc = "idle"
    /\ \E a \in {reset(This)} : Becomes(a)
    /\ UNCHANGED <<pc, terrain, startY, gen>>

Next ==
    \/ \E deltaTime \in DeltaTimes, walkDir \in WalkDirs : UpdatePlayer(deltaTime, walkDir)
    \/ CheckAndUpdateChunks
    \/ Jump
    \/ Reset

Spec == Init /\ [][Next]_vars

\* the sum of numCubes() over the chunks of the keys
RECURSIVE CubesLoaded(_, _)
CubesLoaded(m, keys) ==
    IF keys = {} THEN 0
    ELSE LET key == CHOOSE k \in keys : TRUE
         IN  numCubes(m[key]) + CubesLoaded(m, keys \ {key})

\* C2: after every updateChunks call (the constructor's, checkAndUpdateChunks'
\* and reset's) combinedCubeOffsets has length 4 * (sum of numCubes() over the
\* chunks in loadedChunks) and totalCubesToDraw is that sum: the aggregate is
\* never stale after a call that loaded or unloaded a chunk.
C2_AggregateExact ==
    LET total == CubesLoaded(loadedChunks, KeySet(loadedChunks))
    IN  /\ Len(combinedCubeOffsets) = 4 * total
        /\ totalCubesToDraw = total

\* a boundary check that unloaded chunks, loaded others and rebuilt the aggregate
C2_Witness ==
    /\ {"Crossed chunk boundary", "Unloading chunk", "Loading chunk", "Aggregating data"}
           \subseteq console
    /\ totalCubesToDraw > 0

\* the boundary check sees the reference position in another chunk than the stored one
Crossing ==
    \/ getPlayerChunkX(This) # currentChunkX
    \/ getPlayerChunkZ(This) # currentChunkZ

\* C3 as stated: across any sequence of frames, jump requests and resets the
\* membership of loadedChunks changes only inside a boundary check
\* (checkAndUpdateChunks) that sees the chunk coordinate of the reference
\* position differ from the stored one.
C3_OnlyBoundaryCheck ==
    [][KeySet(loadedChunks') # KeySet(loadedChunks) => pc = "check" /\ Crossing]_vars

\* C3 as amended: the membership of loadedChunks changes only inside a boundary
\* check that sees the chunk coordinate differ from the stored one, or inside
\* reset() (called between frames, or by a physics step that ends below
\* fallLimit), which clears the map and loads the neighbourhood of the spawn
\* point's chunk; a physics step that does not reset and a jump request never
\* load or unload a chunk.
C3_BoundaryCheckOrReset ==
    [][KeySet(loadedChunks') # KeySet(loadedChunks) =>
          \/ pc = "check" /\ Crossing
          \/ /\ \/ Reset
                 \/ \E deltaTime \in DeltaTimes, walkDir \in WalkDirs :
                        /\ UpdatePlayer(deltaTime, walkDir)
                        /\ FellOut(MovePlayer(This, deltaTime, walkDir))
              /\ KeySet(loadedChunks') =
                     KeySet(Constructed(spawnY * Unit).loadedChunks)]_vars

\* a boundary check has just changed the membership, away from the spawn chunk
C3_Witness ==
    /\ pc = "idle"
    /\ {"Crossed chunk boundary", "Unloading chunk", "Loading chunk"} \subseteq console
    /\ KeySet(loadedChunks) # KeySet(Constructed(spawnY * Unit).loadedChunks)

\* some sample point of the footprint, at the block level just below the feet, is solid
Grounded ==
    LET level == FloorInt(playerPosition.y - playerHeight * Unit - 10) * Unit
    IN  \E dx \in {-playerRadius, 0, playerRadius}, dz \in {-playerRadius, 0, playerRadius} :
            isBlockAt(This, playerPosition.x + dx, level, playerPosition.z + dz)

\* C10: a jump request changes state only when the player is on the ground:
\* jump() sets the vertical velocity to jumpSpeed if and only if some sample
\* point of the footprint at the block level just below the feet is solid and
\* the vertical velocity is at most 0.1; otherwise position, velocity and the
\* jumping flag stay as they are, as for a second request while airborne.
C10_JumpOnlyOnGround ==
    [][Jump =>
          /\ playerPosition' = playerPosition
          /\ loadedChunks' = loadedChunks
          /\ IF Grounded /\ playerVelocity.y <= Unit \div 10
             THEN /\ playerVelocity' = [playerVelocity EXCEPT !.y = jumpSpeed * Unit]
                  /\ isJumping'
             ELSE UNCHANGED <<playerVelocity, isJumping>>]_vars

\* the player has just left the ground by a jump
C10_Witness ==
    /\ pc = "idle"
    /\ isJumping
    /\ playerVelocity.y = jumpSpeed * Unit
    /\ Grounded

\* the sample points of checkCollision(checkPos) that lie in a block
CollidingSamples(a, checkPos) ==
    {p \in CollisionSamples(checkPos)
            \cup {Vec3(checkPos.x, checkPos.y - playerHeight * Unit, checkPos.z)} :
        isBlockAt(a, p.x, p.y, p.z)}

\* the Y axis of the step a frame of deltaTime would take from the state
YStep(deltaTime) ==
    LET dt == ClampedDt(deltaTime)
        a1 == ApplyGravity(This, dt)
        m  == PotentialMove(a1, dt, [x |-> 0, z |-> 0])
    IN  [from      |-> a1,
         move      |-> m,
         checkPosY |-> [a1.playerPosition EXCEPT !.y = @ + m.y],
         after     |-> ResolveY(a1, m)]

\* C11: when the vertical move of a step collides, the vertical velocity becomes
\* 0 and the player rests against a block that caused the collision: moving
\* down the feet end 0.001 above the top face of a block holding a colliding
\* sample point, moving up the head ends 0.001 below the bottom face of one.
C11_SnapsAgainstCollidingBlock ==
    pc = "idle" =>
        \A deltaTime \in DeltaTimes :
            LET s   == YStep(deltaTime)
                hit == CollidingSamples(s.from, s.checkPosY)
            IN  (s.move.y # 0 /\ hit # {}) =>
                    /\ s.after.playerVelocity.y = 0
                    /\ IF s.move.y < 0
                       THEN \E p \in hit :
                                s.after.playerPosition.y - playerHeight * Unit
                                    = Floor(p.y) + Unit + landOffset
                       ELSE \E p \in hit :
                                s.after.playerPosition.y = Floor(p.y) - landOffset

\* C13: a physics step integrates with dt = min(deltaTime, 0.1): the vertical
\* velocity it leaves is max(velocity.y + gravity * dt, terminalVelocity), or 0
\* after a vertical collision, and a free vertical move is that velocity
\* times dt.  The stored vertical velocity is always within terminalVelocity
\* (-50) .. jumpSpeed (10), and no step moves the player more than 5 units
\* down or 1 unit up.
C13_ClampedStep ==
    /\ playerVelocity.y >= terminalVelocity * Unit
    /\ playerVelocity.y <= jumpSpeed * Unit
    /\ pc = "idle" =>
           \A deltaTime \in DeltaTimes, walkDir \in WalkDirs :
               LET dt    == Min(deltaTime, maxStep)
                   vy    == Max(playerVelocity.y + gravity * dt, terminalVelocity * Unit)
                   after == MovePlayer(This, deltaTime, walkDir)
                   dy    == after.playerPosition.y - playerPosition.y
               IN  /\ after.playerVelocity.y \in {vy, 0}
                   /\ after.playerVelocity.y = vy => dy = Mul(vy, dt)
                   /\ dy >= -5 * Unit
                   /\ dy <= Unit

\* the player falls at the terminal velocity and a late frame (0.25 s) is
\* about to move it the 5 units of a clamped step
C13_Witness ==
    /\ pc = "idle"
    /\ playerVelocity.y = terminalVelocity * Unit
    /\ MovePlayer(This, 250, [x |-> 0, z |-> 0]).playerPosition.y
           = playerPosition.y - 5 * Unit

\* the quadruples of cubePositions(): elements 4k .. 4k + 3 of the buffer
Quads(c) ==
    LET buffer == cubePositions(c)
    IN  {<<buffer[4 * k + 1], buffer[4 * k + 2], buffer[4 * k + 3], buffer[4 * k + 4]>> :
            k \in 0..(Len(buffer) \div 4 - 1)}

\* the highest y of a column height or of a cube of the chunk
Top(c) ==
    CHOOSE t \in 0..(maxHeight + 1) :
        /\ \A i \in 0..(c.size - 1), j \in 0..(c.size - 1) : c.heightMap[i][j] <= t
        /\ \A q \in Quads(c) : q[2] <= t
        /\ \/ t = 0
           \/ \E i \in 0..(c.size - 1), j \in 0..(c.size - 1) : c.heightMap[i][j] = t
           \/ \E q \in Quads(c) : q[2] = t

\* the integer points of the chunk's columns and of the columns around them,
\* from below the world to above the highest cube
Box(c) ==
    ((c.minWorldX - 1)..c.maxWorldX) \X ((-1)..(Top(c) + 1))
        \X ((c.minWorldZ - 1)..c.maxWorldZ)

\* hasBlock is true exactly at the cubes of the position buffer, and the
\* buffer holds each cube once
CollisionMatchesRendering(c) ==
    \A quads \in {Quads(c)}, box \in {Box(c)} :
        /\ Len(cubePositions(c)) = 4 * numCubes(c)
        /\ Cardinality(quads) = numCubes(c)
        /\ \A q \in quads : <<q[1], q[2], q[3]>> \in box /\ q[4] = 0
        /\ \A point \in box :
               hasBlock(c, point[1], point[2], point[3])
                   <=> <<point[1], point[2], point[3], 0>> \in quads

\* C17: for every loaded chunk and every integer (x, y, z), hasBlock(x, y, z)
\* is true if and only if the quadruple (x, y, z, 0) is in cubePositions(),
\* where it occurs once; and no frame, jump request or reset changes the
\* height map or the position buffer of a chunk that stays loaded, the
\* aggregation into combinedCubeOffsets included.
C17_CollisionMatchesRendering ==
    /\ [](\A key \in KeySet(loadedChunks) : CollisionMatchesRendering(loadedChunks[key]))
    /\ [][\A key \in KeySet(loadedChunks) \cap KeySet(loadedChunks') :
              loadedChunks'[key] = loadedChunks[key]]_vars

\* a frame has just crossed a chunk boundary into chunk (-1, -1): chunks were
\* unloaded, loaded and aggregated, and the loaded chunks have columns of
\* different heights
C17_Witness ==
    /\ pc = "idle"
    /\ currentChunkX = -1 /\ currentChunkZ = -1
    /\ {"Crossed chunk boundary", "Unloading chunk", "Loading chunk", "Aggregating data"}
           \subseteq console
    /\ \E key1 \in KeySet(loadedChunks), key2 \in KeySet(loadedChunks) :
           /\ numCubes(loadedChunks[key1]) > 0
           /\ loadedChunks[key1].heightMap[0][0] # loadedChunks[key2].heightMap[0][0]

-----------------------------------------------------------------------------
(* The construction of one chunk, generateCubes stepped column by column    *)
(* (pass 1) and cube by cube (pass 2), for chunks of several coordinates,   *)
(* sizes and terrain parameters.                                            *)

\* chunk sizes 1 .. MaxSize
MaxSize == 2

\* chunk coordinates -MaxChunk - 1 .. MaxChunk on each axis
MaxChunk == 1

ChunkCoords == (-MaxChunk - 1)..MaxChunk

\* baseHeight and terrainAmplitude of generateCubes: the program's, a flat world
\* of height 5, one whose columns fall below 0 and one whose columns pass 100
TerrainParams ==
    {[baseHeight |-> baseHeight, terrainAmplitude |-> terrainAmplitude],
     [baseHeight |-> 5, terrainAmplitude |-> 0],
     [baseHeight |-> -20, terrainAmplitude |-> 80],
     [baseHeight |-> 95, terrainAmplitude |-> 80]}

\* generateCubes at line 54: k is the column i * size + j the loops stand at,
\* y the cube of the column, pastEnd whether a write fell outside the buffer
GenStart(chunkX, chunkZ, size) ==
    [pc          |-> "pass1",
     chunk       |-> ChunkFields(chunkX, chunkZ, size),
     totalCubes  |-> 0,
     bufferIndex |-> 0,
     k           |-> 0,
     y           |-> 0,
     pastEnd     |-> FALSE]

appVars == <<loadedChunks, currentChunkX, currentChunkZ, combinedCubeOffsets,
             totalCubesToDraw, playerPosition, playerVelocity, isJumping, pc,
             console, terrain, startY>>

InitChunk ==
    /\ terrain \in TerrainParams
    /\ startY = spawnY * Unit
    /\ pc = "idle"
    /\ \E a \in {Fields(spawnY * Unit)} : Holds(a)
    /\ \E chunkX \in ChunkCoords, chunkZ \in ChunkCoords, size \in 1..MaxSize :
           gen = GenStart(chunkX, chunkZ, size)

\* lines 56-80: one column of pass 1
GenPass1 ==
    /\ gen.pc = "pass1"
    /\ gen.k < gen.chunk.size * gen.chunk.size
    /\ LET r == Pass1Column(gen.chunk, gen.totalCubes,
                            gen.k \div gen.chunk.size, gen.k % gen.chunk.size)
       IN  gen' = [gen EXCEPT !.chunk = r.chunk, !.totalCubes = r.totalCubes, !.k = @ + 1]
    /\ UNCHANGED appVars

\* lines 84-88: the buffer is allocated, pass 2 begins
GenAllocate ==
    /\ gen.pc = "pass1"
    /\ gen.k = gen.chunk.size * gen.chunk.size
    /\ gen' = [gen EXCEPT !.pc = "pass2", !.chunk = Allocate(gen.chunk, gen.totalCubes),
                          !.bufferIndex = 0, !.k = 0, !.y = 0]
    /\ UNCHANGED appVars

\* lines 89-100: one cube of pass 2
GenPass2 ==
    /\ gen.pc = "pass2"
    /\ gen.k < gen.chunk.size * gen.chunk.size
    /\ LET i == gen.k \div gen.chunk.size
           j == gen.k % gen.chunk.size
           r == WriteCube(gen.chunk, gen.bufferIndex, i, j, gen.y)
           columnDone == gen.y + 1 > gen.chunk.heightMap[i][j]
       IN  gen' = [gen EXCEPT !.chunk = r.chunk,
                              !.bufferIndex = r.bufferIndex,
                              !.pastEnd = @ \/ r.bufferIndex > Len(gen.chunk.cubePositionsF32),
                              !.y = IF columnDone THEN 0 ELSE @ + 1,
                              !.k = IF columnDone THEN @ + 1 ELSE @]
    /\ UNCHANGED appVars

\* line 107: generateCubes returns
GenReturn ==
    /\ gen.pc = "pass2"
    /\ gen.k = gen.chunk.size * gen.chunk.size
    /\ gen' = [gen EXCEPT !.pc = "done"]
    /\ UNCHANGED appVars

NextChunk ==
    \/ GenPass1
    \/ GenAllocate
    \/ GenPass2
    \/ GenReturn

SpecChunk == InitChunk /\ [][NextChunk]_vars

\* the world columns of chunk c
ColumnsOf(c) == (c.minWorldX..(c.maxWorldX - 1)) \X (c.minWorldZ..(c.maxWorldZ - 1))

\* the height chunk c stores for world column (worldX, worldZ)
StoredHeight(c, worldX, worldZ) == c.heightMap[worldZ - c.minWorldZ][worldX - c.minWorldX]

RECURSIVE CubesOfColumns(_, _)
CubesOfColumns(c, k) ==
    IF k >= c.size * c.size THEN 0
    ELSE (c.heightMap[k \div c.size][k % c.size] + 1) + CubesOfColumns(c, k + 1)

\* C7: for every chunk (any coordinates, any size, heights clamped to 0..100)
\* numCubes() is the sum over the size * size columns of height + 1, the
\* position buffer allocated after pass 1 has exactly 4 * numCubes() entries
\* and keeps that length, pass 2 never writes at or past the end of the
\* buffer, and it ends with the fill index at 4 * numCubes().
C7_BufferExact ==
    /\ ~gen.pastEnd
    /\ gen.pc \in {"pass2", "done"} =>
           /\ \A col \in ColumnsOf(gen.chunk) :
                  StoredHeight(gen.chunk, col[1], col[2]) \in 0..maxHeight
           /\ numCubes(gen.chunk) = CubesOfColumns(gen.chunk, 0)
           /\ Len(cubePositions(gen.chunk)) = 4 * numCubes(gen.chunk)
           /\ gen.bufferIndex <= 4 * numCubes(gen.chunk)
    /\ gen.pc = "done" => gen.bufferIndex = 4 * numCubes(gen.chunk)

\* a finished chunk of several columns, at a negative coordinate, with a column
\* clamped to 100
C7_Witness ==
    /\ gen.pc = "done"
    /\ gen.chunk.size > 1
    /\ gen.chunk.chunkX < 0
    /\ \E col \in ColumnsOf(gen.chunk) : StoredHeight(gen.chunk, col[1], col[2]) = maxHeight
    /\ gen.bufferIndex > 0

-----------------------------------------------------------------------------
(* updateChunks called on an object that holds any small set of chunks.     *)

\* a prior loaded set is empty, a neighbourhood, or any set of at most MaxPrior chunks
MaxPrior == 2

\* the chunk keys of the prior sets: around the origin, inside and outside the
\* neighbourhoods of the centres
KeyGrid == ((-renderDistance - 1)..renderDistance) \X ((-renderDistance - 1)..renderDistance)

\* the centres of the calls: the origin's chunk and the chunks next to it
Centres == (-1)..1

RECURSIVE KeySetsUpTo(_)
KeySetsUpTo(n) ==
    IF n = 0 THEN {{}}
    ELSE LET smaller == KeySetsUpTo(n - 1)
         IN  smaller \cup {keys \cup {key} : keys \in smaller, key \in KeyGrid}

PriorKeySets ==
    KeySetsUpTo(MaxPrior)
        \cup {requiredChunks(centerX, centerZ) : centerX \in Centres, centerZ \in Centres}

\* the object with the chunks of the keys loaded and aggregated
Loaded(keys) ==
    LET a == [Fields(spawnY * Unit) EXCEPT
                 !.loadedChunks = [key \in keys |-> Chunk(key[1], key[2], chunkSize)]]
    IN  [aggregateChunkData(a) EXCEPT !.console = {}]

InitUpdate ==
    /\ terrain = [baseHeight |-> baseHeight, terrainAmplitude |-> terrainAmplitude]
    /\ startY = spawnY * Unit
    /\ gen = GenIdle
    /\ pc = "idle"
    /\ \E keys \in PriorKeySets : \E a \in {Loaded(keys)} : Holds(a)

\* the call as lines 72-74, 127-130 and 310-313 make it: the centre is stored
\* in currentChunkX, currentChunkZ, then updateChunks(centerX, centerZ) runs
UpdateChunksCall(centerX, centerZ) ==
    /\ \E a \in {updateChunks([This EXCEPT !.currentChunkX = centerX,
                                            !.currentChunkZ = centerZ],
                               centerX, centerZ)} : Becomes(a)
    /\ pc' = "updated"
    /\ UNCHANGED <<terrain, startY, gen>>

NextUpdate == \E centerX \in Centres, centerZ \in Centres : UpdateChunksCall(centerX, centerZ)

SpecUpdate == InitUpdate /\ [][NextUpdate]_vars

\* the chunk coordinates within renderDistance of the centre on both axes
Neighbourhood(centerX, centerZ) ==
    ((centerX - renderDistance)..(centerX + renderDistance))
        \X ((centerZ - renderDistance)..(centerZ + renderDistance))

\* C1: after any call updateChunks(centerX, centerZ), from any prior loaded set
\* (empty, the neighbourhood of another centre, or arbitrary), the key set of
\* loadedChunks is exactly the (2 * renderDistance + 1)^2 chunk coordinates
\* within renderDistance of the centre on both axes: no required key is missing
\* and no other key remains.
C1_NeighbourhoodLoaded ==
    pc = "updated" =>
        /\ KeySet(loadedChunks) = Neighbourhood(currentChunkX, currentChunkZ)
        /\ Cardinality(KeySet(loadedChunks)) =
               (2 * renderDistance + 1) * (2 * renderDistance + 1)

\* C14: an updateChunks call that moves the centre from c, whose neighbourhood
\* N(c) is loaded, to c' constructs a new Chunk for exactly the coordinates of
\* N(c') \ N(c), each once, removes exactly the coordinates of N(c) \ N(c'),
\* and leaves every chunk of N(c) \cap N(c') in the map as it was; the number
\* of loaded chunks is (2 * renderDistance + 1)^2 before and after.
C14_UpdateDelta ==
    KeySet(loadedChunks) = Neighbourhood(currentChunkX, currentChunkZ) =>
        \A centerX \in Centres, centerZ \in Centres :
            LET old      == Neighbourhood(currentChunkX, currentChunkZ)
                required == Neighbourhood(centerX, centerZ)
                toLoad   == chunksToLoad(This, centerX, centerZ)
                built    == {ChunkKey(toLoad[n].x, toLoad[n].z) : n \in 1..Len(toLoad)}
                after    == updateChunks([This EXCEPT !.currentChunkX = centerX,
                                                      !.currentChunkZ = centerZ],
                                         centerX, centerZ)
            IN  /\ built = required \ old
                /\ Len(toLoad) = Cardinality(built)
                /\ KeySet(loadedChunks) \ KeySet(after.loadedChunks) = old \ required
                /\ KeySet(after.loadedChunks) \ KeySet(loadedChunks) = required \ old
                /\ \A key \in old \cap required :
                       /\ key \in KeySet(after.loadedChunks)
                       /\ after.loadedChunks[key] = loadedChunks[key]
                /\ MapSize(loadedChunks) = (2 * renderDistance + 1) * (2 * renderDistance + 1)
                /\ MapSize(after.loadedChunks) = MapSize(loadedChunks)

\* an earlier call loaded the neighbourhood of chunk (0, 0), and the call
\* that moves the centre to (1, 0) builds the column x = 2, drops the column
\* x = -1 and keeps 9 chunks
C14_Witness ==
    /\ pc = "updated"
    /\ currentChunkX = 0 /\ currentChunkZ = 0
    /\ KeySet(loadedChunks) = Neighbourhood(0, 0)
    /\ LET toLoad == chunksToLoad(This, 1, 0)
           after  == updateChunks([This EXCEPT !.currentChunkX = 1], 1, 0)
       IN  /\ {ChunkKey(toLoad[n].x, toLoad[n].z) : n \in 1..Len(toLoad)}
                  = {2} \X ((-1)..1)
           /\ KeySet(loadedChunks) \ KeySet(after.loadedChunks) = {-1} \X ((-1)..1)
           /\ MapSize(after.loadedChunks) = 9

\* a call that found chunks to unload and chunks to load
C1_Witness ==
    /\ pc = "updated"
    /\ {"Unloading chunk", "Loading chunk"} \subseteq console
    /\ currentChunkX < 0
\* the coordinates isBlockAt is probed at: the middle of every column the prior
\* sets and the neighbourhoods cover and of the columns next to them, and the
\* values around zero
ProbeCoords ==
    {k * Unit + Unit \div 2 : k \in ((-2 * chunkSize - 1)..(3 * chunkSize))} \cup {-Unit, -1, 0}

\* the heights isBlockAt is probed at: below the world, its lowest level, and
\* the levels around the surface of the terrain
ProbeHeights == {-Unit, -1, 0, Unit - 1} \cup {k * Unit + Unit \div 2 : k \in 18..24}

\* C6: isBlockAt(worldX, worldY, worldZ) is true if and only if, with (ix, iy, iz)
\* the floors of the arguments, the chunk with key (floor(ix / size),
\* floor(iz / size)) is loaded and 0 <= iy <= the height that chunk stores for
\* column (ix, iz); it is false where the owning chunk is not loaded.  That
\* holds at negative coordinates too, and the chunk selected always contains
\* (ix, iz) within its horizontal bounds.
C6_IsBlockAt ==
    \A worldX \in ProbeCoords, worldZ \in ProbeCoords :
        LET ix  == FloorInt(worldX)
            iz  == FloorInt(worldZ)
            cx  == CHOOSE q \in (-chunkSize - 3)..(chunkSize + 3) :
                       q * chunkSize <= ix /\ ix < (q + 1) * chunkSize
            cz  == CHOOSE q \in (-chunkSize - 3)..(chunkSize + 3) :
                       q * chunkSize <= iz /\ iz < (q + 1) * chunkSize
            key == <<cx, cz>>
        IN  IF key \in KeySet(loadedChunks)
            THEN /\ <<ix, iz>> \in ColumnsOf(loadedChunks[key])
                 /\ \A worldY \in ProbeHeights :
                        isBlockAt(This, worldX, worldY, worldZ)
                            <=> /\ 0 <= FloorInt(worldY)
                                /\ FloorInt(worldY) <= StoredHeight(loadedChunks[key], ix, iz)
            ELSE \A worldY \in ProbeHeights : ~isBlockAt(This, worldX, worldY, worldZ)

\* a loaded set with a block at negative coordinates, air above it, and a probed
\* column whose chunk is not loaded
C6_Witness ==
    /\ \E worldX \in ProbeCoords, worldZ \in ProbeCoords, worldY \in ProbeHeights :
           /\ worldX < -Unit
           /\ worldZ < -Unit
           /\ worldY > Unit
           /\ isBlockAt(This, worldX, worldY, worldZ)
           /\ ~isBlockAt(This, worldX, worldY + Unit, worldZ)
    /\ \E worldX \in ProbeCoords :
           <<FloorInt(worldX) \div chunkSize, 0>> \notin KeySet(loadedChunks)
-----------------------------------------------------------------------------
(* The landing scenario: a flat world of height 5, the reference point      *)
(* placed above the spawn column, frames without input.                     *)

FlatTerrain == [baseHeight |-> 5, terrainAmplitude |-> 0]

\* the scenario drops the reference point from up to MaxDrop blocks above 8.5
MaxDrop == 3

\* where the scenario places the reference point: at 5.5, and at 8.5, which
\* puts the feet (playerHeight below) at 6.5, or whole blocks above that
SettleStarts ==
    {5 * Unit + Unit \div 2} \cup {(8 + k) * Unit + Unit \div 2 : k \in 0..MaxDrop}

\* frame times of the scenario, in milliseconds; the step clamps 250 to maxStep
SettleDeltaTimes == {40, 100, 250}

NoWalk == [x |-> 0, z |-> 0]

InitSettle ==
    /\ terrain = FlatTerrain
    /\ startY \in SettleStarts
    /\ gen = GenIdle
    /\ pc = "idle"
    /\ \E a \in {Constructed(startY)} : Holds(a)

NextSettle ==
    \/ \E deltaTime \in SettleDeltaTimes : UpdatePlayer(deltaTime, NoWalk)
    \/ CheckAndUpdateChunks

\* the animation loop calls draw() for every frame
SpecSettle == InitSettle /\ [][NextSettle]_vars /\ WF_vars(NextSettle)

-----------------------------------------------------------------------------
(* The fall out of the world: a flat world of height 5, the reference point *)
(* placed below its lowest blocks, where nothing stops the fall.            *)

\* where the reference point is placed: a fall from there ends a step at the
\* fall limit itself before it ends one below it
FallStart == -2 * Unit - Unit \div 2

InitFall ==
    /\ terrain = FlatTerrain
    /\ startY = FallStart
    /\ gen = GenIdle
    /\ pc = "idle"
    /\ \E a \in {Constructed(startY)} : Holds(a)

\* frames, with or without a walk key held
NextFall ==
    \/ \E deltaTime \in DeltaTimes, walkDir \in WalkDirs : UpdatePlayer(deltaTime, walkDir)
    \/ CheckAndUpdateChunks

SpecFall == InitFall /\ [][NextFall]_vars

\* C9: whenever a physics step (updatePlayer called between frames, whatever
\* the frame time and the walk key) ends with the reference position's y below
\* -50 the step performs a full reset: the position is the spawn point, the
\* velocity (0, 0, 0), the jumping flag cleared, the stored current chunk the
\* spawn point's chunk, loadedChunks exactly the neighbourhood of that chunk
\* and the aggregate rebuilt for it; a step that ends with y >= -50 resets
\* nothing.
C9_ResetBelowFallLimit ==
    pc = "idle" =>
        \A deltaTime \in DeltaTimes, walkDir \in WalkDirs :
            InWorld(This, deltaTime, walkDir) =>
                LET moved  == MovePlayer(This, deltaTime, walkDir)
                    after  == updatePlayer(This, deltaTime, walkDir)
                    spawnX == SpawnPoint.x \div (chunkSize * Unit)
                    spawnZ == SpawnPoint.z \div (chunkSize * Unit)
                IN  IF moved.playerPosition.y < -50 * Unit
                    THEN /\ after.playerPosition = Vec3((chunkSize * Unit) \div 2, 105 * Unit,
                                                        (chunkSize * Unit) \div 2)
                         /\ after.playerVelocity = Vec3(0, 0, 0)
                         /\ ~after.isJumping
                         /\ after.currentChunkX = spawnX
                         /\ after.currentChunkZ = spawnZ
                         /\ KeySet(after.loadedChunks) = Neighbourhood(spawnX, spawnZ)
                         /\ \A key \in KeySet(after.loadedChunks) :
                                after.loadedChunks[key] = Chunk(key[1], key[2], chunkSize)
                         /\ after.totalCubesToDraw =
                                CubesLoaded(after.loadedChunks, KeySet(after.loadedChunks))
                         /\ Len(after.combinedCubeOffsets) = 4 * after.totalCubesToDraw
                    ELSE /\ after.playerPosition = moved.playerPosition
                         /\ after.playerVelocity = moved.playerVelocity
                         /\ after.isJumping = moved.isJumping
                         /\ after.loadedChunks = loadedChunks
                         /\ after.currentChunkX = currentChunkX
                         /\ after.currentChunkZ = currentChunkZ
                         /\ after.combinedCubeOffsets = combinedCubeOffsets
                         /\ after.totalCubesToDraw = totalCubesToDraw

\* a step has just reset the fallen player
C9_Witness ==
    /\ pc = "check"
    /\ "Player fell out of world, resetting." \in console
    /\ playerPosition = SpawnPoint
    /\ totalCubesToDraw > 0

-----------------------------------------------------------------------------
(* SpecWalk: the player stands on the real terrain beside the nearest step   *)
(* of the ground (the columns x = -3 and z = -3 are one block higher than    *)
(* the columns x, z >= -2) and walks and jumps in a small arena around it.  *)

\* the arena is ArenaSize blocks wide on each axis
ArenaSize == 3

ArenaLow == -((5 * Unit) \div 2)

\* the reference height of a player at rest on columns of height 20
RestY == (20 + 1 + playerHeight) * Unit + landOffset

\* positions a walk from the spawn point reaches, 1.5 blocks from the step
WalkStarts == {Vec3(-((3 * Unit) \div 2), RestY, 0), Vec3(0, RestY, -((3 * Unit) \div 2))}

InArena(a, deltaTime, walkDir) ==
    LET dt == ClampedDt(deltaTime)
        x  == a.playerPosition.x + Mul(walkDir.x * walkSpeed, dt)
        z  == a.playerPosition.z + Mul(walkDir.z * walkSpeed, dt)
    IN  /\ x \in ArenaLow..(ArenaLow + ArenaSize * Unit)
        /\ z \in ArenaLow..(ArenaLow + ArenaSize * Unit)

\* the program after the player walked from the spawn point to "position"
\* and came to rest there
WalkedTo(position) ==
    checkAndUpdateChunks([Constructed(spawnY * Unit) EXCEPT !.playerPosition = position])

InitWalk ==
    /\ terrain = [baseHeight |-> baseHeight, terrainAmplitude |-> terrainAmplitude]
    /\ startY = RestY
    /\ gen = GenIdle
    /\ pc = "idle"
    /\ \E position \in WalkStarts : \E a \in {WalkedTo(position)} : Holds(a)

\* draw(), first half, inside the arena
WalkFrame(deltaTime, walkDir) ==
    /\ pc = "idle"
    /\ InArena(This, deltaTime, walkDir)
    /\ \E a \in {updatePlayer(This, deltaTime, walkDir)} : Becomes(a)
    /\ pc' = "check"
    /\ UNCHANGED <<terrain, startY, gen>>

NextWalk ==
    \/ \E deltaTime \in DeltaTimes, walkDir \in WalkDirs : WalkFrame(deltaTime, walkDir)
    \/ CheckAndUpdateChunks
    \/ Jump

SpecWalk == InitWalk /\ [][NextWalk]_vars

\* the step a frame of deltaTime with walk key walkDir takes from the state:
\* the displacement, the height the Y axis alone resolves to, the two
\* horizontal test positions and whether each collides
AxisTests(deltaTime, walkDir) ==
    LET s    == YStep(deltaTime)
        m    == PotentialMove(s.from, ClampedDt(deltaTime), walkDir)
        y1   == s.after.playerPosition.y
        posX == Vec3(playerPosition.x + m.x, y1, playerPosition.z)
        hitX == m.x # 0 /\ checkCollision(This, posX)
        x1   == IF hitX THEN playerPosition.x ELSE playerPosition.x + m.x
        posZ == Vec3(x1, y1, playerPosition.z + m.z)
        hitZ == m.z # 0 /\ checkCollision(This, posZ)
        z1   == IF hitZ THEN playerPosition.z ELSE playerPosition.z + m.z
    IN  [move |-> m, hitX |-> hitX, hitZ |-> hitZ, resolved |-> Vec3(x1, y1, z1)]

C16_NeverInsideTerrain == ~checkCollision(This, playerPosition)

\* the player jumped onto the step and the landing snap has just put it at
\* rest on the higher columns
C16_Witness ==
    /\ pc = "check"
    /\ playerPosition.y = RestY + Unit
    /\ playerVelocity.y = 0
    /\ ~isJumping

-----------------------------------------------------------------------------
(* SpecRecover: the player starts below the world as in SpecFall, falls out  *)
(* of it, is reset by the physics step and then plays on: frames, jump       *)
(* requests and resets of the GUI.                                           *)

SpecRecover == InitFall /\ [][Next]_vars

\* the chunk coordinate of the column that holds the point p
ChunkOf(p) == ChunkKey(FloorInt(p.x) \div chunkSize, FloorInt(p.z) \div chunkSize)

\* the stored current chunk is the chunk of the position and loadedChunks is
\* exactly its neighbourhood
StreamedAroundPlayer ==
    /\ currentChunkX = playerPosition.x \div (chunkSize * Unit)
    /\ currentChunkZ = playerPosition.z \div (chunkSize * Unit)
    /\ KeySet(loadedChunks) = Neighbourhood(currentChunkX, currentChunkZ)

\* C15: at the end of construction, of every frame (updatePlayer, then
\* checkAndUpdateChunks), of every reset (the one a physics step makes for
\* the fallen player included, already when updatePlayer returns) and after
\* a jump request, the stored current chunk is (floor(position.x / size),
\* floor(position.z / size)) and loadedChunks is exactly the neighbourhood
\* of it; and at every moment, between the two halves of a frame too, every
\* collision sample point of the player, and of the horizontal test
\* positions of the next step, lies in a loaded chunk.
C15_StreamedAroundPlayer ==
    /\ (pc = "idle" \/ "Player fell out of world, resetting." \in console)
           => StreamedAroundPlayer
    /\ \A walkDir \in WalkDirs :
           LET m    == PotentialMove(This, maxStep, walkDir)
               test == Vec3(playerPosition.x + m.x, playerPosition.y, playerPosition.z + m.z)
           IN  \A p \in CollisionSamples(playerPosition) \cup CollisionSamples(test) :
                   ChunkOf(p) \in KeySet(loadedChunks)

\* updatePlayer has just returned through the reset of the fallen player:
\* the chunks around the spawn point are loaded before checkAndUpdateChunks
\* runs
C15_Witness ==
    /\ pc = "check"
    /\ {"Player fell out of world, resetting.", "Loading chunk"} \subseteq console
    /\ StreamedAroundPlayer
    /\ MapSize(loadedChunks) = (2 * renderDistance + 1) * (2 * renderDistance + 1)

=============================================================================
